---- MODULE Spec2Model ----
(***************************************************************************)
(* Model of src/src/graphTheory.js: the adjacency-matrix and adjacency-list *)
(* representations, the PriorityQueue class, the algorithms bfs, dfs,       *)
(* dijkstra, bellmanFord, kruskal and prim, and the structural checks       *)
(* hasEulerianPath, hasEulerianCircuit, hasHamiltonianPath, topologicalSort.*)
(*                                                                          *)
(* Every algorithm is synchronous: a loop iteration (or a whole call) is    *)
(* one action, and the graph is not changed while a call is running.        *)
(***************************************************************************)
EXTENDS Integers, Sequences, FiniteSets, TLC

VARIABLES
    pc,             \* where the caller is: "init", "list", "matrix", "edges", or inside/after a call
    adjList,        \* Map<number, {vertex, weight}[]> of createAdjacencyList
    matrix,         \* number[][] of createAdjacencyMatrix
    edges,          \* the caller's edge array [u, v, weight][] (bellmanFord, kruskal)
    vertices,       \* the vertex count passed with the edge array
    start,          \* the start vertex of the running call
    distances,      \* dijkstra / bellmanFord: distances
    previous,       \* dijkstra / bellmanFord: previous
    priorityQueue,  \* dijkstra / prim: PriorityQueue.items
    visited,        \* bfs / dfs / prim: the visited Set
    queue,          \* bfs: the frontier array
    result,         \* bfs / dfs: the returned order
    mst,            \* kruskal: the accepted edges; prim: its local edges array
    threw,          \* whether the call ended in `throw new Error(...)`
    returnValue,    \* what the last call returned (a boolean, a root, a dequeued entry)
    disjointSet,    \* kruskal's disjoint-set: [parent, rank]
    unioned,        \* the pairs {u, v} that union has been called with so far
    calls           \* the enqueue and dequeue calls made so far on the PriorityQueue

vars == <<pc, adjList, matrix, edges, vertices, start, distances, previous,
          priorityQueue, visited, queue, result, mst, threw, returnValue,
          disjointSet, unioned, calls>>

objectVars == <<disjointSet, unioned, calls>>
reprVars == <<adjList, matrix>>
inputVars == <<edges, vertices>>
callVars == <<start, distances, previous, priorityQueue, visited, queue, result, mst, threw,
              returnValue>>

\* ------------------------------------------------------------------ bounds
MaxVertices == 3
MaxEdges == 2
MaxWeight == 1

Weights == 0..MaxWeight

\* A call's optional `weight` argument: <<>> when omitted, <<w>> when given.
WeightArgs == {<<>>} \cup {<<w>> : w \in Weights}

\* ---------------------------------------------------------------- helpers
Infinity == 1000000
Null == -1000001
\* What reading a missing array index or object key yields, and what
\* arithmetic on it yields.
Undefined == -1000002
NaN == -1000003

\* JS number addition and comparison, with Infinity + w = Infinity.
Plus(a, w) == IF a = Infinity THEN Infinity ELSE a + w

\* a + w and a < b on values that may be undefined: undefined + w is NaN, and
\* every comparison with undefined or NaN is false.
JsPlus(a, w) == IF a \in {Undefined, NaN} THEN NaN ELSE Plus(a, w)

JsLess(a, b) == a \notin {Undefined, NaN} /\ b \notin {Undefined, NaN} /\ a < b

\* a[i] read and a[i] = x written on an array or object: a missing index reads
\* as undefined, and a write to a missing index creates it.
at(a, i) == IF i \in DOMAIN a THEN a[i] ELSE Undefined

put(a, i, x) == IF i \in DOMAIN a THEN [a EXCEPT ![i] = x] ELSE a @@ (i :> x)

Range(s) == {s[i] : i \in 1..Len(s)}

RECURSIVE SumSeq(_)
SumSeq(s) == IF s = <<>> THEN 0 ELSE s[1] + SumSeq(Tail(s))

\* ------------------------------------------------- graph representation
createAdjacencyMatrix(n) == [i \in 0..(n - 1) |-> [j \in 0..(n - 1) |-> 0]]

createAdjacencyList(n) == [i \in 0..(n - 1) |-> <<>>]

\* `weight = 1` default parameter
defaultWeight(arg) == IF arg = <<>> THEN 1 ELSE arg[1]

\* Faulty variant: only matrix[u][v] is set.
addEdgeToMatrixMirrorless(m, u, v, weight) ==
    [m EXCEPT ![u][v] = weight]

\* Faulty variant: the weight is added to what the two cells hold.
addEdgeToMatrixAccumulating(m, u, v, weight) ==
    LET m1 == [m EXCEPT ![u][v] = @ + weight]
    IN  IF u = v THEN m1 ELSE [m1 EXCEPT ![v][u] = @ + weight]

addEdgeToMatrix(m, u, v, weight) ==
    LET m1 == [m EXCEPT ![u][v] = weight]
    IN  [m1 EXCEPT ![v][u] = weight]

\* Faulty variant: only u's sequence receives an entry.
addEdgeToListDirected(l, u, v, weight) ==
    [l EXCEPT ![u] = Append(@, [vertex |-> v, weight |-> weight])]

addEdgeToList(l, u, v, weight) ==
    LET l1 == [l EXCEPT ![u] = Append(@, [vertex |-> v, weight |-> weight])]
    IN  [l1 EXCEPT ![v] = Append(@, [vertex |-> u, weight |-> weight])]

\* Number of addEdgeToList calls that built l (each call pushes two entries).
EntryCount(l) ==
    LET RECURSIVE Upto(_)
        Upto(k) == IF k < 0 THEN 0 ELSE Len(l[k]) + Upto(k - 1)
    IN  Upto(Cardinality(DOMAIN l) - 1)

\* bfs, dfs, dijkstra, prim, hasEulerianPath, hasEulerianCircuit and
\* topologicalSort only read the Map they are given (get, forEach, map, values,
\* for...of, length): the graph after a step of any of them is the graph before.
graphAfterCallDrained(l) == [v \in DOMAIN l |-> <<>>]

graphAfterCall(l) == l

Init ==
    /\ pc = "init"
    /\ adjList = <<>>
    /\ matrix = <<>>
    /\ edges = <<>>
    /\ vertices = 0
    /\ start = Null
    /\ distances = <<>>
    /\ previous = <<>>
    /\ priorityQueue = <<>>
    /\ visited = {}
    /\ queue = <<>>
    /\ result = <<>>
    /\ mst = <<>>
    /\ threw = FALSE
    /\ returnValue = Null
    /\ disjointSet = [parent |-> <<>>, rank |-> <<>>]
    /\ unioned = {}
    /\ calls = <<>>

CreateAdjacencyList ==
    /\ pc = "init"
    /\ \E n \in 1..MaxVertices : adjList' = createAdjacencyList(n)
    /\ pc' = "list"
    /\ UNCHANGED <<objectVars, matrix, inputVars, callVars>>

CreateAdjacencyMatrix ==
    /\ pc = "init"
    /\ \E n \in 1..MaxVertices : matrix' = createAdjacencyMatrix(n)
    /\ pc' = "matrix"
    /\ UNCHANGED <<objectVars, adjList, inputVars, callVars>>

AddEdgeToList ==
    /\ pc = "list"
    /\ EntryCount(adjList) < 2 * MaxEdges
    /\ \E u \in DOMAIN adjList, v \in DOMAIN adjList, w \in WeightArgs :
          adjList' = addEdgeToList(adjList, u, v, defaultWeight(w))
    /\ UNCHANGED <<objectVars, pc, matrix, inputVars, callVars>>

AddEdgeToMatrix ==
    /\ pc = "matrix"
    /\ \E u \in DOMAIN matrix, v \in DOMAIN matrix, w \in WeightArgs :
          matrix' = addEdgeToMatrix(matrix, u, v, defaultWeight(w))
    /\ UNCHANGED <<objectVars, pc, adjList, inputVars, callVars>>

Next ==
    \/ CreateAdjacencyList
    \/ CreateAdjacencyMatrix
    \/ AddEdgeToList
    \/ AddEdgeToMatrix

Spec == Init /\ [][Next]_vars

\* -------------------------------------------------------- PriorityQueue
\* Array.prototype.sort with (a, b) => a.priority - b.priority: a stable sort,
\* computed as an insertion sort that keeps equal priorities in array order.
RECURSIVE insertByPriority(_, _)
insertByPriority(sorted, x) ==
    IF sorted = <<>> THEN <<x>>
    ELSE IF Head(sorted).priority - x.priority > 0 THEN <<x>> \o sorted
    ELSE <<Head(sorted)>> \o insertByPriority(Tail(sorted), x)

RECURSIVE sortByPriority(_)
sortByPriority(items) ==
    IF items = <<>> THEN <<>>
    ELSE insertByPriority(sortByPriority(SubSeq(items, 1, Len(items) - 1)),
                          items[Len(items)])

\* Faulty variant: the push without the sort.
enqueueUnsorted(items, element, priority) ==
    Append(items, [element |-> element, priority |-> priority])

enqueue(items, element, priority) ==
    sortByPriority(Append(items, [element |-> element, priority |-> priority]))

\* dequeue() is items.shift(): the removed entry and the remaining items.
dequeue(items) == [entry |-> Head(items), items |-> Tail(items)]

isEmpty(items) == Len(items) = 0

\* ---------------------------------------------------------------- dijkstra
\* Faulty variant: alt forgets distances[u].
altWeightOnly(d, u, weight) == weight

\* const alt = distances[u] + weight
alt(d, u, weight) == Plus(d[u], weight)

\* Faulty variant: previous[u] = v instead of previous[v] = u.
relaxSwappedPrevious(st, u, edge) ==
    LET v == edge.vertex
        a == alt(st.distances, u, edge.weight)
    IN  IF a < st.distances[v]
        THEN [distances |-> [st.distances EXCEPT ![v] = a],
              previous  |-> [st.previous EXCEPT ![u] = v],
              items     |-> enqueue(st.items, v, a)]
        ELSE st

\* Faulty variant: alt <= distances[v] instead of alt < distances[v].
relaxOnEqual(st, u, edge) ==
    LET v == edge.vertex
        a == alt(st.distances, u, edge.weight)
    IN  IF a <= st.distances[v]
        THEN [distances |-> [st.distances EXCEPT ![v] = a],
              previous  |-> [st.previous EXCEPT ![v] = u],
              items     |-> enqueue(st.items, v, a)]
        ELSE st

\* The body of adjList.get(u).forEach(edge => ...) for one edge.
relax(st, u, edge) ==
    LET v == edge.vertex
        a == alt(st.distances, u, edge.weight)
    IN  IF a < st.distances[v]
        THEN [distances |-> [st.distances EXCEPT ![v] = a],
              previous  |-> [st.previous EXCEPT ![v] = u],
              items     |-> enqueue(st.items, v, a)]
        ELSE st

RECURSIVE relaxAll(_, _, _)
relaxAll(st, u, es) ==
    IF es = <<>> THEN st ELSE relaxAll(relax(st, u, Head(es)), u, Tail(es))

\* Faulty variant: distances[start] = 0 is missing.
dijkstraInitNoStartDistance(l, s) ==
    [distances |-> [v \in DOMAIN l |-> Infinity],
     previous  |-> [v \in DOMAIN l |-> Null],
     items     |-> enqueue(<<>>, s, 0)]

\* The state of dijkstra before its while loop.
dijkstraInit(l, s) ==
    [distances |-> put([v \in DOMAIN l |-> Infinity], s, 0),
     previous  |-> [v \in DOMAIN l |-> Null],
     items     |-> enqueue(<<>>, s, 0)]

\* One iteration of while (!priorityQueue.isEmpty()).
dijkstraIteration(l, st) ==
    LET d == dequeue(st.items)
        u == d.entry.element
    IN  relaxAll([st EXCEPT !.items = d.items], u, l[u])

RECURSIVE dijkstraLoop(_, _)
dijkstraLoop(l, st) ==
    IF isEmpty(st.items) THEN st ELSE dijkstraLoop(l, dijkstraIteration(l, st))

\* The whole call: { distances, previous }.
dijkstra(l, s) ==
    LET st == dijkstraLoop(l, dijkstraInit(l, s))
    IN  [distances |-> st.distances, previous |-> st.previous]

DijkstraCall ==
    /\ pc = "list"
    /\ \E s \in DOMAIN adjList :
          LET st == dijkstraInit(adjList, s)
          IN  /\ start' = s
              /\ distances' = st.distances
              /\ previous' = st.previous
              /\ priorityQueue' = st.items
    /\ pc' = "dijkstra"
    /\ adjList' = graphAfterCall(adjList)
    /\ UNCHANGED <<objectVars, matrix, inputVars, visited, queue, result, mst, threw, returnValue>>

DijkstraIteration ==
    /\ pc = "dijkstra"
    /\ ~isEmpty(priorityQueue)
    /\ LET st == dijkstraIteration(adjList,
                    [distances |-> distances, previous |-> previous,
                     items |-> priorityQueue])
       IN  /\ distances' = st.distances
           /\ previous' = st.previous
           /\ priorityQueue' = st.items
    /\ adjList' = graphAfterCall(adjList)
    /\ UNCHANGED <<objectVars, pc, matrix, inputVars, start, visited, queue, result, mst, threw, returnValue>>

DijkstraReturn ==
    /\ pc = "dijkstra"
    /\ isEmpty(priorityQueue)
    /\ pc' = "dijkstraReturned"
    /\ adjList' = graphAfterCall(adjList)
    /\ UNCHANGED <<objectVars, matrix, inputVars, callVars>>

NextDijkstra ==
    \/ CreateAdjacencyList
    \/ AddEdgeToList
    \/ DijkstraCall
    \/ DijkstraIteration
    \/ DijkstraReturn

SpecDijkstra == Init /\ [][NextDijkstra]_vars

\* The while loop runs on: an iteration that is possible is eventually executed,
\* and so is the return once the queue is empty.
DijkstraLoopEnabled == pc = "dijkstra" /\ ~isEmpty(priorityQueue)

SpecDijkstraFair ==
    /\ Init /\ [][NextDijkstra]_vars
    /\ ([]<>(~DijkstraLoopEnabled) \/ []<><<DijkstraIteration>>_vars)
    /\ WF_vars(DijkstraReturn)

\* ------------------------------------------------------------- bellmanFord
\* The body of edges.forEach(([u, v, weight]) => ...) of a relaxation pass.
bfRelax(st, e) ==
    LET u == e[1]
        v == e[2]
        weight == e[3]
    IN  IF JsLess(JsPlus(at(st.distances, u), weight), at(st.distances, v))
        THEN [distances |-> put(st.distances, v, JsPlus(at(st.distances, u), weight)),
              previous  |-> put(st.previous, v, u)]
        ELSE st

RECURSIVE bfPass(_, _)
bfPass(st, es) ==
    IF es = <<>> THEN st ELSE bfPass(bfRelax(st, Head(es)), Tail(es))

\* Faulty variant: one relaxation pass too few.
passCountOneShort(n) == n - 2

\* for (let i = 0; i < vertices - 1; i++): the number of passes.
passCount(n) == n - 1

RECURSIVE bfPasses(_, _, _)
bfPasses(st, es, k) ==
    IF k <= 0 THEN st ELSE bfPasses(bfPass(st, es), es, k - 1)

\* Faulty variant: the negative-cycle check is missing.
stillRelaxesUnchecked(d, es) == FALSE

\* The final edges.forEach: whether some edge still relaxes (the throw).
stillRelaxes(d, es) ==
    \E i \in 1..Len(es) : JsLess(JsPlus(at(d, es[i][1]), es[i][3]), at(d, es[i][2]))

\* The whole call: threw, or { distances, previous }.
bellmanFord(es, n, s) ==
    LET st0 == [distances |-> put([v \in 0..(n - 1) |-> Infinity], s, 0),
                previous  |-> [v \in 0..(n - 1) |-> Null]]
        st == bfPasses(st0, es, passCount(n))
    IN  IF stillRelaxes(st.distances, es)
        THEN [threw |-> TRUE, distances |-> <<>>, previous |-> <<>>]
        ELSE [threw |-> FALSE, distances |-> st.distances, previous |-> st.previous]

\* ------------------------------------------------------ edge-array input
MaxArcVertices == 2
MaxArcs == 2

ArcWeights == (0 - MaxWeight)..MaxWeight

\* The caller fixes the vertex count of the directed edge array it is about to build.
NewArcArray ==
    /\ pc = "init"
    /\ \E n \in 1..MaxArcVertices : vertices' = n
    /\ pc' = "arcs"
    /\ UNCHANGED <<objectVars, reprVars, edges, callVars>>

\* The caller appends a directed [u, v, weight] to its edge array.
PushArc ==
    /\ pc = "arcs"
    /\ Len(edges) < MaxArcs
    /\ \E u \in 0..(vertices - 1), v \in 0..(vertices - 1), w \in ArcWeights :
          edges' = Append(edges, <<u, v, w>>)
    /\ UNCHANGED <<objectVars, pc, reprVars, vertices, callVars>>

BellmanFordCall ==
    /\ pc = "arcs"
    /\ \E s \in 0..(vertices - 1) :
          LET r == bellmanFord(edges, vertices, s)
          IN  /\ start' = s
              /\ threw' = r.threw
              /\ distances' = r.distances
              /\ previous' = r.previous
    /\ pc' = "bellmanFordReturned"
    /\ UNCHANGED <<objectVars, reprVars, inputVars, priorityQueue, visited, queue, result, mst, returnValue>>

NextBellmanFord ==
    \/ NewArcArray
    \/ PushArc
    \/ BellmanFordCall

SpecBellmanFord == Init /\ [][NextBellmanFord]_vars

\* ----------------------------------------------------------------- kruskal
\* edges.sort((a, b) => a[2] - b[2]): a stable sort, computed as an insertion
\* sort that keeps equal weights in array order.
RECURSIVE insertByWeight(_, _)
insertByWeight(sorted, e) ==
    IF sorted = <<>> THEN <<e>>
    ELSE IF Head(sorted)[3] - e[3] > 0 THEN <<e>> \o sorted
    ELSE <<Head(sorted)>> \o insertByWeight(Tail(sorted), e)

\* Faulty variant: the comparator is b[2] - a[2].
RECURSIVE insertByWeightDescending(_, _)
insertByWeightDescending(sorted, e) ==
    IF sorted = <<>> THEN <<e>>
    ELSE IF e[3] - Head(sorted)[3] > 0 THEN <<e>> \o sorted
    ELSE <<Head(sorted)>> \o insertByWeightDescending(Tail(sorted), e)

RECURSIVE sortByWeightDescending(_)
sortByWeightDescending(es) ==
    IF es = <<>> THEN <<>>
    ELSE insertByWeightDescending(sortByWeightDescending(SubSeq(es, 1, Len(es) - 1)),
                                  es[Len(es)])

RECURSIVE sortByWeight(_)
sortByWeight(es) ==
    IF es = <<>> THEN <<>>
    ELSE insertByWeight(sortByWeight(SubSeq(es, 1, Len(es) - 1)), es[Len(es)])

\* find(u) with its path compression: the root, and parent[] as find leaves it.
RECURSIVE find(_, _)
find(parent, u) ==
    IF at(parent, u) # u
    THEN LET r == find(parent, at(parent, u))
         IN  [root |-> r.root, parent |-> put(r.parent, u, r.root)]
    ELSE [root |-> at(parent, u), parent |-> parent]

\* Faulty variant: parent[v] = u, without find and without ranks.
unionEndpoints(ds, u, v) ==
    [parent |-> put(ds.parent, v, u), rank |-> ds.rank]

\* Faulty variant: the rank of rootU grows on every call.
unionAlwaysRanks(ds, u, v) ==
    LET fu == find(ds.parent, u)
        fv == find(fu.parent, v)
        rootU == fu.root
        rootV == fv.root
    IN  [parent |-> put(fv.parent, rootV, rootU),
         rank   |-> put(ds.rank, rootU, JsPlus(at(ds.rank, rootU), 1))]

\* Faulty variant: the two rank comparisons are exchanged.
unionByRankInverted(ds, u, v) ==
    LET fu == find(ds.parent, u)
        fv == find(fu.parent, v)
        rootU == fu.root
        rootV == fv.root
        parent == fv.parent
        rank == ds.rank
    IN  IF rootU # rootV
        THEN IF JsLess(at(rank, rootU), at(rank, rootV))
             THEN [parent |-> put(parent, rootV, rootU), rank |-> rank]
             ELSE IF JsLess(at(rank, rootV), at(rank, rootU))
             THEN [parent |-> put(parent, rootU, rootV), rank |-> rank]
             ELSE [parent |-> put(parent, rootV, rootU),
                   rank   |-> put(rank, rootU, JsPlus(at(rank, rootU), 1))]
        ELSE [parent |-> parent, rank |-> rank]

\* union(u, v) on the disjoint-set ds = [parent, rank].
union(ds, u, v) ==
    LET fu == find(ds.parent, u)
        fv == find(fu.parent, v)
        rootU == fu.root
        rootV == fv.root
        parent == fv.parent
        rank == ds.rank
    IN  IF rootU # rootV
        THEN IF JsLess(at(rank, rootV), at(rank, rootU))
             THEN [parent |-> put(parent, rootV, rootU), rank |-> rank]
             ELSE IF JsLess(at(rank, rootU), at(rank, rootV))
             THEN [parent |-> put(parent, rootU, rootV), rank |-> rank]
             ELSE [parent |-> put(parent, rootV, rootU),
                   rank   |-> put(rank, rootU, JsPlus(at(rank, rootU), 1))]
        ELSE [parent |-> parent, rank |-> rank]

\* Faulty variant: the edge is accepted when u !== v, without find.
kruskalStepEndpointsDiffer(st, e) ==
    LET u == e[1]
        v == e[2]
    IN  IF u # v
        THEN LET ds == union([parent |-> st.parent, rank |-> st.rank], u, v)
             IN  [parent |-> ds.parent, rank |-> ds.rank, mst |-> Append(st.mst, e)]
        ELSE st

\* The body of edges.forEach(([u, v, weight]) => ...) for one edge.
kruskalStep(st, e) ==
    LET u == e[1]
        v == e[2]
        fu == find(st.parent, u)
        fv == find(fu.parent, v)
    IN  IF fu.root # fv.root
        THEN LET ds == union([parent |-> fv.parent, rank |-> st.rank], u, v)
             IN  [parent |-> ds.parent, rank |-> ds.rank, mst |-> Append(st.mst, e)]
        ELSE [st EXCEPT !.parent = fv.parent]

RECURSIVE kruskalLoop(_, _)
kruskalLoop(st, es) ==
    IF es = <<>> THEN st ELSE kruskalLoop(kruskalStep(st, Head(es)), Tail(es))

\* The whole call: the returned mst, and the caller's array as the sort leaves it.
kruskal(es, n) ==
    LET sorted == sortByWeight(es)
        st0 == [parent |-> [i \in 0..(n - 1) |-> i],
                rank   |-> [i \in 0..(n - 1) |-> 0],
                mst    |-> <<>>]
    IN  [edges |-> sorted, mst |-> kruskalLoop(st0, sorted).mst]

\* The caller fixes the vertex count of the edge array it is about to build.
NewEdgeArray ==
    /\ pc = "init"
    /\ \E n \in 1..MaxVertices : vertices' = n
    /\ pc' = "edges"
    /\ UNCHANGED <<objectVars, reprVars, edges, callVars>>

\* The caller appends an undirected [u, v, weight] to its edge array.
PushEdge ==
    /\ pc = "edges"
    /\ Len(edges) < MaxEdges
    /\ \E u \in 0..(vertices - 1), v \in 0..(vertices - 1), w \in Weights :
          edges' = Append(edges, <<u, v, w>>)
    /\ UNCHANGED <<objectVars, pc, reprVars, vertices, callVars>>

KruskalCall ==
    /\ pc = "edges"
    /\ LET r == kruskal(edges, vertices)
       IN  /\ edges' = r.edges
           /\ mst' = r.mst
    /\ pc' = "kruskalReturned"
    /\ UNCHANGED <<objectVars, reprVars, vertices, start, distances, previous, priorityQueue,
                   visited, queue, result, threw, returnValue>>

NextKruskal ==
    \/ NewEdgeArray
    \/ PushEdge
    \/ KruskalCall

SpecKruskal == Init /\ [][NextKruskal]_vars

\* --------------------------------------------------------------- bfs, dfs
\* adjList.get(vertex).map(edge => edge.vertex)
neighbours(l, vertex) == [i \in 1..Len(l[vertex]) |-> l[vertex][i].vertex]

\* Faulty variant: the vertex is put at the front of result (unshift for push).
bfsIterationUnshift(l, st) ==
    LET vertex == Head(st.queue)
        rest == Tail(st.queue)
    IN  IF vertex \notin st.visited
        THEN [visited |-> st.visited \cup {vertex},
              result  |-> <<vertex>> \o st.result,
              queue   |-> rest \o neighbours(l, vertex)]
        ELSE [st EXCEPT !.queue = rest]

\* One iteration of bfs's while (queue.length > 0), on st = [visited, queue, result].
bfsIteration(l, st) ==
    LET vertex == Head(st.queue)
        rest == Tail(st.queue)
    IN  IF vertex \notin st.visited
        THEN [visited |-> st.visited \cup {vertex},
              result  |-> Append(st.result, vertex),
              queue   |-> rest \o neighbours(l, vertex)]
        ELSE [st EXCEPT !.queue = rest]

RECURSIVE bfsLoop(_, _)
bfsLoop(l, st) ==
    IF Len(st.queue) > 0 THEN bfsLoop(l, bfsIteration(l, st)) ELSE st

\* The whole call: the returned order.
bfs(l, s) == bfsLoop(l, [visited |-> {}, queue |-> <<s>>, result |-> <<>>]).result

RECURSIVE dfs(_, _, _)
RECURSIVE dfsEdges(_, _, _)

\* Faulty variant: the recursive call works on a copy of visited.
dfsEdgesCopiedVisited(l, es, st) ==
    IF es = <<>> THEN st
    ELSE IF Head(es).vertex \notin st.visited
    THEN LET r == dfs(l, Head(es).vertex, st.visited)
         IN  dfsEdges(l, Tail(es), [result  |-> st.result \o r.result,
                                    visited |-> st.visited])
    ELSE dfsEdges(l, Tail(es), st)

\* dfs's for (const edge of adjList.get(start)) over the remaining edges es, on
\* st = [result, visited]; the visited Set is shared with the recursive calls.
dfsEdges(l, es, st) ==
    IF es = <<>> THEN st
    ELSE IF Head(es).vertex \notin st.visited
    THEN LET r == dfs(l, Head(es).vertex, st.visited)
         IN  dfsEdges(l, Tail(es), [result  |-> st.result \o r.result,
                                    visited |-> r.visited])
    ELSE dfsEdges(l, Tail(es), st)

\* The whole call: the returned order, and the visited Set as the call leaves it.
dfs(l, s, v) == dfsEdges(l, l[s], [result |-> <<s>>, visited |-> v \cup {s}])

BfsCall ==
    /\ pc = "list"
    /\ \E s \in DOMAIN adjList : start' = s /\ queue' = <<s>>
    /\ visited' = {}
    /\ result' = <<>>
    /\ pc' = "bfs"
    /\ adjList' = graphAfterCall(adjList)
    /\ UNCHANGED <<objectVars, matrix, inputVars, distances, previous, priorityQueue, mst, threw, returnValue>>

BfsIteration ==
    /\ pc = "bfs"
    /\ Len(queue) > 0
    /\ LET st == bfsIteration(adjList, [visited |-> visited, queue |-> queue,
                                        result |-> result])
       IN  /\ visited' = st.visited
           /\ queue' = st.queue
           /\ result' = st.result
    /\ adjList' = graphAfterCall(adjList)
    /\ UNCHANGED <<objectVars, pc, matrix, inputVars, start, distances, previous, priorityQueue,
                   mst, threw, returnValue>>

BfsReturn ==
    /\ pc = "bfs"
    /\ Len(queue) = 0
    /\ pc' = "bfsReturned"
    /\ adjList' = graphAfterCall(adjList)
    /\ UNCHANGED <<objectVars, matrix, inputVars, callVars>>

DfsCall ==
    /\ pc = "list"
    /\ \E s \in DOMAIN adjList :
          LET r == dfs(adjList, s, {})
          IN  /\ start' = s
              /\ result' = r.result
              /\ visited' = r.visited
    /\ pc' = "dfsReturned"
    /\ adjList' = graphAfterCall(adjList)
    /\ UNCHANGED <<objectVars, matrix, inputVars, distances, previous, priorityQueue, queue,
                   mst, threw, returnValue>>

NextTraversal ==
    \/ CreateAdjacencyList
    \/ AddEdgeToList
    \/ BfsCall
    \/ BfsIteration
    \/ BfsReturn
    \/ DfsCall

SpecTraversal == Init /\ [][NextTraversal]_vars

\* -------------------------------------------------------------------- prim
\* Faulty variant: the edge is recorded whether or not v is visited.
primEdgeUnconditional(st, u, edge) ==
    [visited |-> st.visited,
     items   |-> enqueue(st.items, edge.vertex, edge.weight),
     edges   |-> Append(st.edges, <<u, edge.vertex, edge.weight>>)]

\* The body of adjList.get(u).forEach(edge => ...) for one edge, on
\* st = [visited, items, edges].
primEdge(st, u, edge) ==
    LET v == edge.vertex
        weight == edge.weight
    IN  IF v \notin st.visited
        THEN [visited |-> st.visited,
              items   |-> enqueue(st.items, v, weight),
              edges   |-> Append(st.edges, <<u, v, weight>>)]
        ELSE st

RECURSIVE primEdges(_, _, _)
primEdges(st, u, es) ==
    IF es = <<>> THEN st ELSE primEdges(primEdge(st, u, Head(es)), u, Tail(es))

\* One iteration of prim's while (!priorityQueue.isEmpty()).
primIteration(l, st) ==
    LET d == dequeue(st.items)
        u == d.entry.element
    IN  IF u \in st.visited
        THEN [st EXCEPT !.items = d.items]
        ELSE primEdges([visited |-> st.visited \cup {u}, items |-> d.items,
                        edges |-> st.edges], u, l[u])

RECURSIVE primLoop(_, _)
primLoop(l, st) ==
    IF isEmpty(st.items) THEN st ELSE primLoop(l, primIteration(l, st))

\* The whole call: the returned edges.
prim(l, s) ==
    primLoop(l, [visited |-> {}, items |-> enqueue(<<>>, s, 0), edges |-> <<>>]).edges

PrimCall ==
    /\ pc = "list"
    /\ \E s \in DOMAIN adjList : start' = s /\ priorityQueue' = enqueue(<<>>, s, 0)
    /\ visited' = {}
    /\ mst' = <<>>
    /\ pc' = "prim"
    /\ adjList' = graphAfterCall(adjList)
    /\ UNCHANGED <<objectVars, matrix, inputVars, distances, previous, queue, result, threw, returnValue>>

PrimIteration ==
    /\ pc = "prim"
    /\ ~isEmpty(priorityQueue)
    /\ LET st == primIteration(adjList, [visited |-> visited, items |-> priorityQueue,
                                         edges |-> mst])
       IN  /\ visited' = st.visited
           /\ priorityQueue' = st.items
           /\ mst' = st.edges
    /\ adjList' = graphAfterCall(adjList)
    /\ UNCHANGED <<objectVars, pc, matrix, inputVars, start, distances, previous, queue, result,
                   threw, returnValue>>

PrimReturn ==
    /\ pc = "prim"
    /\ isEmpty(priorityQueue)
    /\ pc' = "primReturned"
    /\ adjList' = graphAfterCall(adjList)
    /\ UNCHANGED <<objectVars, matrix, inputVars, callVars>>

NextPrim ==
    \/ CreateAdjacencyList
    \/ AddEdgeToList
    \/ PrimCall
    \/ PrimIteration
    \/ PrimReturn

SpecPrim == Init /\ [][NextPrim]_vars

\* ---------------------------------------------------- structural checks
RECURSIVE oddDegreeVerticesUpTo(_, _)
\* adjList.forEach(neighbors => { if (neighbors.length % 2 !== 0) oddDegreeVertices++ })
\* over the vertices 0 .. n - 1.
oddDegreeVerticesUpTo(l, n) ==
    IF n = 0 THEN 0
    ELSE oddDegreeVerticesUpTo(l, n - 1) + (IF Len(l[n - 1]) % 2 # 0 THEN 1 ELSE 0)

\* Faulty variant: only zero odd-degree vertices is accepted.
hasEulerianPathNoOdd(l) == oddDegreeVerticesUpTo(l, Cardinality(DOMAIN l)) = 0

hasEulerianPath(l) ==
    LET oddDegreeVertices == oddDegreeVerticesUpTo(l, Cardinality(DOMAIN l))
    IN  oddDegreeVertices = 0 \/ oddDegreeVertices = 2

hasEulerianCircuit(l) == \A v \in DOMAIN l : Len(l[v]) % 2 = 0

\* Faulty variant: the placeholder answers false instead of throwing.
hasHamiltonianPathFalse(l) == [threw |-> FALSE, returnValue |-> FALSE]

\* The body is a single `throw new Error(...)`: no value is returned.
hasHamiltonianPath(l) == [threw |-> TRUE, returnValue |-> Null]

HasEulerianPathCall ==
    /\ pc = "list"
    /\ returnValue' = hasEulerianPath(adjList)
    /\ pc' = "hasEulerianPathReturned"
    /\ adjList' = graphAfterCall(adjList)
    /\ UNCHANGED <<objectVars, matrix, inputVars, start, distances, previous, priorityQueue, visited,
                   queue, result, mst, threw>>

HasEulerianCircuitCall ==
    /\ pc = "list"
    /\ returnValue' = hasEulerianCircuit(adjList)
    /\ pc' = "hasEulerianCircuitReturned"
    /\ adjList' = graphAfterCall(adjList)
    /\ UNCHANGED <<objectVars, matrix, inputVars, start, distances, previous, priorityQueue, visited,
                   queue, result, mst, threw>>

HasHamiltonianPathCall ==
    /\ pc = "list"
    /\ LET r == hasHamiltonianPath(adjList)
       IN  /\ threw' = r.threw
           /\ returnValue' = r.returnValue
    /\ pc' = "hasHamiltonianPathEnded"
    /\ UNCHANGED <<objectVars, reprVars, inputVars, start, distances, previous, priorityQueue, visited,
                   queue, result, mst>>

NextStructural ==
    \/ CreateAdjacencyList
    \/ AddEdgeToList
    \/ HasEulerianPathCall
    \/ HasEulerianCircuitCall
    \/ HasHamiltonianPathCall

SpecStructural == Init /\ [][NextStructural]_vars

\* ------------------------------------------------------- topologicalSort
\* A directed edge u -> v: the caller pushes {vertex: v, weight} onto u's
\* array only (the first push of addEdgeToList).
pushEntry(l, u, v, weight) ==
    [l EXCEPT ![u] = Append(@, [vertex |-> v, weight |-> weight])]

reverse(s) == [i \in 1..Len(s) |-> s[Len(s) + 1 - i]]

RECURSIVE visit(_, _, _)
RECURSIVE visitEdges(_, _, _)

\* adjList.get(vertex).forEach(edge => visit(edge.vertex)), on st = [visited, stack].
visitEdges(l, es, st) ==
    IF es = <<>> THEN st
    ELSE visitEdges(l, Tail(es), visit(l, Head(es).vertex, st))

\* Faulty variant: stack.push(vertex) is outside the if.
visitPushesAlways(l, vertex, st) ==
    IF vertex \notin st.visited
    THEN LET st1 == visitEdges(l, l[vertex], [st EXCEPT !.visited = @ \cup {vertex}])
         IN  [st1 EXCEPT !.stack = Append(@, vertex)]
    ELSE [st EXCEPT !.stack = Append(@, vertex)]

visit(l, vertex, st) ==
    IF vertex \notin st.visited
    THEN LET st1 == visitEdges(l, l[vertex], [st EXCEPT !.visited = @ \cup {vertex}])
         IN  [st1 EXCEPT !.stack = Append(@, vertex)]
    ELSE st

RECURSIVE visitAllFrom(_, _, _)
\* adjList.forEach((_, vertex) => visit(vertex)): the Map's keys in insertion
\* order, 0 .. n - 1.
visitAllFrom(l, vertex, st) ==
    IF vertex \notin DOMAIN l THEN st
    ELSE visitAllFrom(l, vertex + 1, visit(l, vertex, st))

\* Faulty variant: the finishing order is returned without stack.reverse().
topologicalSortUnreversed(l) == visitAllFrom(l, 0, [visited |-> {}, stack |-> <<>>]).stack

topologicalSort(l) == reverse(visitAllFrom(l, 0, [visited |-> {}, stack |-> <<>>]).stack)

\* The caller adds a directed edge to the list.
PushEntry ==
    /\ pc = "list"
    /\ EntryCount(adjList) <= MaxEdges
    /\ \E u \in DOMAIN adjList, v \in DOMAIN adjList :
          adjList' = pushEntry(adjList, u, v, defaultWeight(<<>>))
    /\ UNCHANGED <<objectVars, pc, matrix, inputVars, callVars>>

TopologicalSortCall ==
    /\ pc = "list"
    /\ result' = topologicalSort(adjList)
    /\ pc' = "topologicalSortReturned"
    /\ adjList' = graphAfterCall(adjList)
    /\ UNCHANGED <<objectVars, matrix, inputVars, start, distances, previous, priorityQueue, visited,
                   queue, mst, threw, returnValue>>

NextTopologicalSort ==
    \/ CreateAdjacencyList
    \/ PushEntry
    \/ TopologicalSortCall

SpecTopologicalSort == Init /\ [][NextTopologicalSort]_vars

\* ------------------------------------------- the adjacency-list algorithms
\* A caller that builds a graph with addEdgeToList and passes it to one of the
\* algorithms that take an adjacency list.
NextListAlgorithms ==
    \/ CreateAdjacencyList
    \/ AddEdgeToList
    \/ BfsCall
    \/ BfsIteration
    \/ BfsReturn
    \/ DfsCall
    \/ DijkstraCall
    \/ DijkstraIteration
    \/ DijkstraReturn
    \/ PrimCall
    \/ PrimIteration
    \/ PrimReturn
    \/ HasEulerianPathCall
    \/ HasEulerianCircuitCall
    \/ TopologicalSortCall

SpecListAlgorithms == Init /\ [][NextListAlgorithms]_vars

\* ------------------------------------------- dijkstra, negative weights
\* The distances a run is followed down to: an iteration is taken only while
\* every distance is above -MaxDescent.
MaxDescent == 3

NegativeWeights == {0 - w : w \in 1..MaxWeight}

\* addEdgeToList(adjList, u, v, weight) with weight < 0.
AddNegativeEdgeToList ==
    /\ pc = "list"
    /\ EntryCount(adjList) < 2 * MaxEdges
    /\ \E u \in DOMAIN adjList, v \in DOMAIN adjList, w \in NegativeWeights :
          adjList' = addEdgeToList(adjList, u, v, w)
    /\ UNCHANGED <<objectVars, pc, matrix, inputVars, callVars>>

DijkstraIterationAboveDescent ==
    /\ \A v \in DOMAIN distances : distances[v] > 0 - MaxDescent
    /\ DijkstraIteration

NextDijkstraNegative ==
    \/ CreateAdjacencyList
    \/ AddEdgeToList
    \/ AddNegativeEdgeToList
    \/ DijkstraCall
    \/ DijkstraIterationAboveDescent
    \/ DijkstraReturn

\* The condition of while (!priorityQueue.isEmpty()), within the distances followed.
DijkstraLoopContinues ==
    /\ pc = "dijkstra"
    /\ ~isEmpty(priorityQueue)
    /\ \A v \in DOMAIN distances : distances[v] > 0 - MaxDescent

\* dijkstra is synchronous: once called, its loop keeps iterating while its
\* condition holds (weak fairness of the iteration, with the enabling condition
\* written out) and it returns as soon as the queue is empty.
SpecDijkstraNegative ==
    /\ Init
    /\ [][NextDijkstraNegative]_vars
    /\ ([]<>(~DijkstraLoopContinues) \/ []<><<DijkstraIterationAboveDescent>>_vars)
    /\ WF_vars(DijkstraReturn)

\* ------------------------------------------------- out-of-range vertex ids
\* Vertex ids outside [0, n): one below the range and one above it.
OutOfRangeIds(n) == {-1, n}

\* Whether adjList.get(key) / matrix[key] is an array; on undefined the member
\* access that follows it (.push, .map, .forEach, [v] =, for...of) is a TypeError.
has(a, key) == key \in DOMAIN a

\* addEdgeToList as a call that may end in that TypeError: at the first push when
\* u is missing, after the first push when only v is missing.
addEdgeToListCall(l, u, v, weight) ==
    IF ~has(l, u) THEN [threw |-> TRUE, adjList |-> l]
    ELSE IF ~has(l, v) THEN [threw |-> TRUE, adjList |-> pushEntry(l, u, v, weight)]
    ELSE [threw |-> FALSE, adjList |-> addEdgeToList(l, u, v, weight)]

\* addEdgeToMatrix likewise: matrix[u][v] = weight is done when row u exists,
\* and matrix[v][u] = weight throws when row v does not.
addEdgeToMatrixCall(m, u, v, weight) ==
    IF ~has(m, u) THEN [threw |-> TRUE, matrix |-> m]
    ELSE IF ~has(m, v)
    THEN [threw |-> TRUE, matrix |-> [m EXCEPT ![u] = put(@, v, weight)]]
    ELSE [threw |-> FALSE, matrix |-> addEdgeToMatrix(m, u, v, weight)]

AddEdgeToListOutOfRange ==
    /\ pc = "list"
    /\ \E u \in DOMAIN adjList \cup OutOfRangeIds(Cardinality(DOMAIN adjList)),
          v \in DOMAIN adjList \cup OutOfRangeIds(Cardinality(DOMAIN adjList)),
          w \in WeightArgs :
          /\ ~(has(adjList, u) /\ has(adjList, v))
          /\ LET r == addEdgeToListCall(adjList, u, v, defaultWeight(w))
             IN  adjList' = r.adjList /\ threw' = r.threw
    /\ pc' = "addEdgeToListOutOfRange"
    /\ UNCHANGED <<objectVars, matrix, inputVars, start, distances, previous, priorityQueue, visited,
                   queue, result, mst, returnValue>>

AddEdgeToMatrixOutOfRange ==
    /\ pc = "matrix"
    /\ \E u \in DOMAIN matrix \cup OutOfRangeIds(Cardinality(DOMAIN matrix)),
          v \in DOMAIN matrix \cup OutOfRangeIds(Cardinality(DOMAIN matrix)),
          w \in WeightArgs :
          /\ ~(has(matrix, u) /\ has(matrix, v))
          /\ LET r == addEdgeToMatrixCall(matrix, u, v, defaultWeight(w))
             IN  matrix' = r.matrix /\ threw' = r.threw
    /\ pc' = "addEdgeToMatrixOutOfRange"
    /\ UNCHANGED <<objectVars, adjList, inputVars, start, distances, previous, priorityQueue, visited,
                   queue, result, mst, returnValue>>

\* bfs, dfs, dijkstra and prim given a start that is not a key of the Map: each
\* reaches adjList.get(start) before anything else can fail, and the locals
\* (visited, result, distances, the queue) are lost with the exception.
BfsOutOfRange ==
    /\ pc = "list"
    /\ \E s \in OutOfRangeIds(Cardinality(DOMAIN adjList)) :
          start' = s /\ threw' = ~has(adjList, s)
    /\ pc' = "bfsOutOfRange"
    /\ UNCHANGED <<objectVars, reprVars, inputVars, distances, previous, priorityQueue, visited,
                   queue, result, mst, returnValue>>

DfsOutOfRange ==
    /\ pc = "list"
    /\ \E s \in OutOfRangeIds(Cardinality(DOMAIN adjList)) :
          start' = s /\ threw' = ~has(adjList, s)
    /\ pc' = "dfsOutOfRange"
    /\ UNCHANGED <<objectVars, reprVars, inputVars, distances, previous, priorityQueue, visited,
                   queue, result, mst, returnValue>>

DijkstraOutOfRange ==
    /\ pc = "list"
    /\ \E s \in OutOfRangeIds(Cardinality(DOMAIN adjList)) :
          start' = s /\ threw' = ~has(adjList, dequeue(dijkstraInit(adjList, s).items).entry.element)
    /\ pc' = "dijkstraOutOfRange"
    /\ UNCHANGED <<objectVars, reprVars, inputVars, distances, previous, priorityQueue, visited,
                   queue, result, mst, returnValue>>

PrimOutOfRange ==
    /\ pc = "list"
    /\ \E s \in OutOfRangeIds(Cardinality(DOMAIN adjList)) :
          start' = s /\ threw' = ~has(adjList, dequeue(enqueue(<<>>, s, 0)).entry.element)
    /\ pc' = "primOutOfRange"
    /\ UNCHANGED <<objectVars, reprVars, inputVars, distances, previous, priorityQueue, visited,
                   queue, result, mst, returnValue>>

\* Whether an edge array names a vertex outside [0, n).
HasOutOfRangeEndpoint(es, n) ==
    \E i \in 1..Len(es) : es[i][1] \notin 0..(n - 1) \/ es[i][2] \notin 0..(n - 1)

\* The caller appends a directed edge with an endpoint outside [0, vertices).
PushArcOutOfRange ==
    /\ pc = "arcs"
    /\ Len(edges) < MaxArcs
    /\ \E u \in 0..(vertices - 1) \cup OutOfRangeIds(vertices),
          v \in 0..(vertices - 1) \cup OutOfRangeIds(vertices), w \in ArcWeights :
          /\ HasOutOfRangeEndpoint(<<<<u, v, w>>>>, vertices)
          /\ edges' = Append(edges, <<u, v, w>>)
    /\ UNCHANGED <<objectVars, pc, reprVars, vertices, callVars>>

\* bellmanFord given an out-of-range start or an edge with an out-of-range endpoint.
BellmanFordOutOfRange ==
    /\ pc = "arcs"
    /\ \E s \in 0..(vertices - 1) \cup OutOfRangeIds(vertices) :
          /\ s \notin 0..(vertices - 1) \/ HasOutOfRangeEndpoint(edges, vertices)
          /\ LET r == bellmanFord(edges, vertices, s)
             IN  /\ start' = s
                 /\ threw' = r.threw
                 /\ distances' = r.distances
                 /\ previous' = r.previous
    /\ pc' = "bellmanFordOutOfRange"
    /\ UNCHANGED <<objectVars, reprVars, inputVars, priorityQueue, visited, queue, result, mst, returnValue>>

\* The caller appends an undirected edge with an endpoint outside [0, vertices).
PushEdgeOutOfRange ==
    /\ pc = "edges"
    /\ Len(edges) < MaxEdges
    /\ \E u \in 0..(vertices - 1) \cup OutOfRangeIds(vertices),
          v \in 0..(vertices - 1) \cup OutOfRangeIds(vertices), w \in Weights :
          /\ HasOutOfRangeEndpoint(<<<<u, v, w>>>>, vertices)
          /\ edges' = Append(edges, <<u, v, w>>)
    /\ UNCHANGED <<objectVars, pc, reprVars, vertices, callVars>>

\* kruskal given an edge with an out-of-range endpoint: nothing in it throws.
KruskalOutOfRange ==
    /\ pc = "edges"
    /\ HasOutOfRangeEndpoint(edges, vertices)
    /\ LET r == kruskal(edges, vertices)
       IN  /\ edges' = r.edges
           /\ mst' = r.mst
    /\ threw' = FALSE
    /\ pc' = "kruskalOutOfRange"
    /\ UNCHANGED <<objectVars, reprVars, vertices, start, distances, previous, priorityQueue,
                   visited, queue, result, returnValue>>

NextOutOfRange ==
    \/ CreateAdjacencyList
    \/ AddEdgeToList
    \/ AddEdgeToListOutOfRange
    \/ BfsOutOfRange
    \/ DfsOutOfRange
    \/ DijkstraOutOfRange
    \/ PrimOutOfRange
    \/ CreateAdjacencyMatrix
    \/ AddEdgeToMatrix
    \/ AddEdgeToMatrixOutOfRange
    \/ NewArcArray
    \/ PushArc
    \/ PushArcOutOfRange
    \/ BellmanFordOutOfRange
    \/ NewEdgeArray
    \/ PushEdge
    \/ PushEdgeOutOfRange
    \/ KruskalOutOfRange

SpecOutOfRange == Init /\ [][NextOutOfRange]_vars

\* ------------------------------------------- PriorityQueue as an object
\* The class on its own: new PriorityQueue(), then enqueue, dequeue and isEmpty
\* in any order. priorityQueue holds this.items.
MaxCalls == 3
QueueElements == {0, 1}

NewPriorityQueue ==
    /\ pc = "init"
    /\ pc' = "priorityQueue"
    /\ priorityQueue' = <<>>
    /\ calls' = <<>>
    /\ UNCHANGED <<reprVars, inputVars, start, distances, previous, visited, queue, result,
                   mst, threw, returnValue, disjointSet, unioned>>

Enqueue ==
    /\ pc = "priorityQueue"
    /\ Len(calls) < MaxCalls
    /\ \E element \in QueueElements, priority \in Weights :
          /\ priorityQueue' = enqueue(priorityQueue, element, priority)
          /\ calls' = Append(calls, [op |-> "enqueue",
                                     entry |-> [element |-> element, priority |-> priority]])
    /\ returnValue' = Undefined
    /\ UNCHANGED <<pc, reprVars, inputVars, start, distances, previous, visited, queue, result,
                   mst, threw, disjointSet, unioned>>

\* dequeue() is items.shift(): undefined on an empty array.
Dequeue ==
    /\ pc = "priorityQueue"
    /\ Len(calls) < MaxCalls
    /\ IF isEmpty(priorityQueue)
       THEN /\ returnValue' = Undefined
            /\ priorityQueue' = priorityQueue
            /\ calls' = Append(calls, [op |-> "dequeueOnEmpty"])
       ELSE /\ returnValue' = dequeue(priorityQueue).entry
            /\ priorityQueue' = dequeue(priorityQueue).items
            /\ calls' = Append(calls, [op |-> "dequeue", entry |-> returnValue'])
    /\ UNCHANGED <<pc, reprVars, inputVars, start, distances, previous, visited, queue, result,
                   mst, threw, disjointSet, unioned>>

IsEmpty ==
    /\ pc = "priorityQueue"
    /\ returnValue' = isEmpty(priorityQueue)
    /\ UNCHANGED <<pc, reprVars, inputVars, start, distances, previous, priorityQueue, visited,
                   queue, result, mst, threw, objectVars>>

NextPriorityQueue ==
    \/ NewPriorityQueue
    \/ Enqueue
    \/ Dequeue
    \/ IsEmpty

SpecPriorityQueue == Init /\ [][NextPriorityQueue]_vars

\* ------------------------------------------ the disjoint-set of kruskal
\* parent and rank with find and union called in any order on in-range
\* vertices, as kruskal's forEach calls them for the edges it is given.
MaxSetSize == 4

newDisjointSet(n) ==
    [parent |-> [i \in 0..(n - 1) |-> i], rank |-> [i \in 0..(n - 1) |-> 0]]

NewDisjointSet ==
    /\ pc = "init"
    /\ pc' = "disjointSet"
    /\ \E n \in 1..MaxSetSize : disjointSet' = newDisjointSet(n)
    /\ unioned' = {}
    /\ UNCHANGED <<reprVars, inputVars, callVars, calls>>

\* find(u) as kruskal calls it: the root goes into the comparison of line 191,
\* what stays is the path compression.
FindCall ==
    /\ pc = "disjointSet"
    /\ \E u \in DOMAIN disjointSet.parent :
          disjointSet' = [disjointSet EXCEPT !.parent = find(@, u).parent]
    /\ UNCHANGED <<pc, reprVars, inputVars, callVars, unioned, calls>>

UnionCall ==
    /\ pc = "disjointSet"
    /\ \E u \in DOMAIN disjointSet.parent, v \in DOMAIN disjointSet.parent :
          /\ Cardinality(unioned \cup {{u, v}}) <= MaxCalls
          /\ disjointSet' = union(disjointSet, u, v)
          /\ unioned' = unioned \cup {{u, v}}
    /\ UNCHANGED <<pc, reprVars, inputVars, callVars, calls>>

NextDisjointSet ==
    \/ NewDisjointSet
    \/ FindCall
    \/ UnionCall

SpecDisjointSet == Init /\ [][NextDisjointSet]_vars

\* ------------------------------------------------ reference definitions
\* The directed arcs <<u, v, w>> an adjacency list holds.
ArcsOfList(l) ==
    UNION {{<<u, l[u][i].vertex, l[u][i].weight>> : i \in 1..Len(l[u])} : u \in DOMAIN l}

\* The edge array equivalent to an adjacency list: every entry as [u, v, weight],
\* so every undirected edge appears in both directions.
RECURSIVE EdgeArrayUpTo(_, _)
EdgeArrayUpTo(l, u) ==
    IF u < 0 THEN <<>>
    ELSE EdgeArrayUpTo(l, u - 1) \o [i \in 1..Len(l[u]) |-> <<u, l[u][i].vertex, l[u][i].weight>>]

EdgeArrayOfList(l) == EdgeArrayUpTo(l, Cardinality(DOMAIN l) - 1)

SetMin(S) == CHOOSE x \in S : \A y \in S : x <= y

\* The weights of the arcs from u to v.
ArcWeightsBetween(A, u, v) == {a[3] : a \in {b \in A : b[1] = u /\ b[2] = v}}

\* The least weight of a simple path: its cheapest arc at every step.
PathWeight(A, p) ==
    SumSeq([i \in 1..(Len(p) - 1) |-> SetMin(ArcWeightsBetween(A, p[i], p[i + 1]))])

\* The paths of P, and each of them extended by up to k arcs to new vertices.
RECURSIVE ExtendPaths(_, _, _)
ExtendPaths(A, P, k) ==
    IF k = 0 THEN P
    ELSE ExtendPaths(A,
            P \cup UNION {{Append(p, a[2]) :
                              a \in {b \in A : b[1] = p[Len(p)] /\ b[2] \notin Range(p)}}
                          : p \in P},
            k - 1)

\* The simple paths (sequences of distinct vertices joined by arcs) that leave s.
SimplePathsFrom(A, V, s) == ExtendPaths(A, {<<s>>}, Cardinality(V) - 1)

\* For every v, the weight of a minimum-weight path from s to v, Infinity when
\* there is none. (With no negative cycle reachable from s a minimum-weight walk
\* is a simple path.)
MinPathWeights(A, V, s) ==
    LET P == SimplePathsFrom(A, V, s)
    IN  [v \in V |->
            LET ws == {PathWeight(A, p) : p \in {q \in P : q[Len(q)] = v}}
            IN  IF ws = {} THEN Infinity ELSE SetMin(ws)]

\* The vertices reachable from the set S over the arcs A.
RECURSIVE ReachSet(_, _)
ReachSet(A, S) ==
    LET N == S \cup {a[2] : a \in {b \in A : b[1] \in S}}
    IN  IF N = S THEN S ELSE ReachSet(A, N)

Reachable(A, V, s) == ReachSet(A, {s})

\* A negative-weight cycle through c: a simple path c ~> x closed by an arc x -> c.
NegativeCycleThrough(A, V, c) ==
    \E p \in SimplePathsFrom(A, V, c) :
        /\ ArcWeightsBetween(A, p[Len(p)], c) # {}
        /\ PathWeight(A, p) + SetMin(ArcWeightsBetween(A, p[Len(p)], c)) < 0

ReachableNegativeCycle(A, V, s) ==
    \E c \in Reachable(A, V, s) : NegativeCycleThrough(A, V, c)

\* --------------------------------------------------------------- claims
CountEntries(s, v, w) ==
    Cardinality({i \in 1..Len(s) : s[i].vertex = v /\ s[i].weight = w})

\* C9: undirected symmetry. In the adjacency list, for all u # v and every
\* weight w, u's sequence holds as many (v, w) entries as v's sequence holds
\* (u, w) entries; in the adjacency matrix, matrix[u][v] = matrix[v][u].
C9_UndirectedSymmetry ==
    /\ \A u \in DOMAIN adjList, v \in DOMAIN adjList :
          u # v => \A w \in 0..(MaxWeight + 1) :
                      CountEntries(adjList[u], v, w) = CountEntries(adjList[v], u, w)
    /\ \A u \in DOMAIN matrix, v \in DOMAIN matrix : matrix[u][v] = matrix[v][u]

\* C9 witness: a list built with a duplicated edge between two distinct vertices.
C9_Witness ==
    /\ pc = "list"
    /\ \E u \in DOMAIN adjList, v \in DOMAIN adjList, w \in Weights :
          /\ u # v
          /\ CountEntries(adjList[u], v, w) = 2
          /\ CountEntries(adjList[v], u, w) = 2

\* The graph of the documented scenario: vertices {0,1,2,3}, edges
\* (0,1,1), (1,2,2), (0,2,4), (2,3,1).
ScenarioList ==
    addEdgeToList(addEdgeToList(addEdgeToList(addEdgeToList(
        createAdjacencyList(4), 0, 1, 1), 1, 2, 2), 0, 2, 4), 2, 3, 1)

ScenarioDijkstra == dijkstra(ScenarioList, 0)

\* C1: when dijkstra returns on a graph with non-negative weights, distances[v]
\* is the weight of a minimum-weight path from start to v for every reachable v
\* and Infinity for every other v; the documented scenario yields
\* {0:0, 1:1, 2:3, 3:4}.
C1_DijkstraShortestPaths ==
    /\ pc = "dijkstraReturned" =>
          distances = MinPathWeights(ArcsOfList(adjList), DOMAIN adjList, start)
    /\ ScenarioDijkstra.distances = (0 :> 0 @@ 1 :> 1 @@ 2 :> 3 @@ 3 :> 4)

\* C1 witness: a returned call in which some vertex lies at a positive finite
\* distance over a path of more than one edge.
C1_Witness ==
    /\ pc = "dijkstraReturned"
    /\ \E v \in DOMAIN adjList :
          /\ distances[v] > 0
          /\ distances[v] < Infinity
          /\ previous[v] # start
          /\ distances[previous[v]] > 0

\* The sums of edge weights along the path that previous[] reconstructs from
\* start to v, one sum per choice among parallel edges; empty when the chain does
\* not reach start within k steps or a step is not an edge of the graph.
RECURSIVE ReconstructedSums(_, _, _, _, _)
ReconstructedSums(A, prev, s, v, k) ==
    IF v = s THEN {0}
    ELSE IF k = 0 \/ prev[v] = Null THEN {}
    ELSE {x + w : x \in ReconstructedSums(A, prev, s, prev[v], k - 1),
                  w \in ArcWeightsBetween(A, prev[v], v)}

\* C2: round trip. After dijkstra returns, previous[start] is null, and for every
\* v with finite distances[v] the chain of previous[] from v reaches start, each
\* step is an edge of the graph, and the edge weights along it sum to distances[v].
C2_DijkstraPreviousRoundTrip ==
    pc = "dijkstraReturned" =>
        /\ previous[start] = Null
        /\ \A v \in DOMAIN adjList :
              distances[v] < Infinity =>
                 distances[v] \in ReconstructedSums(ArcsOfList(adjList), previous, start, v,
                                                    Cardinality(DOMAIN adjList))

\* C2 witness: a returned call where the reconstructed path of some vertex uses a
\* step that has parallel edges of two different weights.
C2_Witness ==
    /\ pc = "dijkstraReturned"
    /\ \E v \in DOMAIN adjList :
          /\ previous[v] # Null
          /\ Cardinality(ArcWeightsBetween(ArcsOfList(adjList), previous[v], v)) = 2

\* C3: bellmanFord fails with the negative-cycle error, returning no distances,
\* whenever the edge array holds a negative-weight cycle reachable from start.
C3_BellmanFordDetectsNegativeCycle ==
    (/\ pc = "bellmanFordReturned"
     /\ ReachableNegativeCycle(Range(edges), 0..(vertices - 1), start))
    => (threw /\ distances = <<>>)

\* C3 witness: a call that threw for a negative cycle that does not pass through
\* start but is reachable from it.
C3_Witness ==
    /\ pc = "bellmanFordReturned"
    /\ threw
    /\ ~NegativeCycleThrough(Range(edges), 0..(vertices - 1), start)
    /\ ReachableNegativeCycle(Range(edges), 0..(vertices - 1), start)

\* C4: with no negative-weight cycle reachable from start, bellmanFord raises no
\* error and distances[v] is the minimum path weight from start to v, Infinity
\* for unreachable v.
C4_BellmanFordShortestPaths ==
    (/\ pc = "bellmanFordReturned"
     /\ ~ReachableNegativeCycle(Range(edges), 0..(vertices - 1), start))
    => /\ ~threw
       /\ distances = MinPathWeights(Range(edges), 0..(vertices - 1), start)

\* C4 witness: a call that returned a negative distance from an edge array that
\* mixes negative and positive weights.
C4_Witness ==
    /\ pc = "bellmanFordReturned"
    /\ ~threw
    /\ \E v \in 0..(vertices - 1) : distances[v] < 0
    /\ \E i \in 1..Len(edges) : edges[i][3] > 0

\* C5: on a graph with non-negative weights built with addEdgeToList, bellmanFord
\* on the equivalent edge array returns the same distances as dijkstra for every
\* vertex, Infinity included.
C5_BellmanFordAgreesWithDijkstra ==
    pc = "dijkstraReturned" =>
        LET r == bellmanFord(EdgeArrayOfList(adjList), Cardinality(DOMAIN adjList), start)
        IN  /\ ~r.threw
            /\ \A v \in DOMAIN adjList : r.distances[v] = distances[v]

\* C5 witness: a returned dijkstra call with one vertex at a positive finite
\* distance and another one unreachable.
C5_Witness ==
    /\ pc = "dijkstraReturned"
    /\ \E v \in DOMAIN adjList : distances[v] > 0 /\ distances[v] < Infinity
    /\ \E v \in DOMAIN adjList : distances[v] = Infinity

\* An undirected edge array read as arcs in both directions.
BothWays(E) == E \cup {<<e[2], e[1], e[3]>> : e \in E}

\* The number of connected components of the undirected graph (V, E).
ComponentCount(E, V) == Cardinality({Reachable(BothWays(E), V, v) : v \in V})

\* The edges of es at the positions I.
EdgesAt(es, I) == {es[i] : i \in I}

RECURSIVE TotalWeight(_)
TotalWeight(es) == IF es = <<>> THEN 0 ELSE Head(es)[3] + TotalWeight(Tail(es))

RECURSIVE WeightAt(_, _)
WeightAt(es, I) ==
    IF I = {} THEN 0
    ELSE LET i == CHOOSE j \in I : TRUE IN es[i][3] + WeightAt(es, I \ {i})

\* The spanning forests of the edge array es on n vertices, as sets of positions:
\* as many components as the whole graph, and no cycle (each edge joins two).
SpanningForests(es, n) ==
    {I \in SUBSET (1..Len(es)) :
        /\ ComponentCount(EdgesAt(es, I), 0..(n - 1)) = ComponentCount(Range(es), 0..(n - 1))
        /\ ComponentCount(EdgesAt(es, I), 0..(n - 1)) = n - Cardinality(I)}

\* C6: the edges kruskal returns form a forest (no self-loop, no cycle) taken from
\* the input, and their number is vertexCount minus the number of connected
\* components of the input graph (vertexCount - 1 when it is connected).
C6_KruskalForest ==
    pc = "kruskalReturned" =>
        LET V == 0..(vertices - 1)
        IN  /\ \A i \in 1..Len(mst) : mst[i] \in Range(edges) /\ mst[i][1] # mst[i][2]
            /\ ComponentCount(Range(mst), V) = vertices - Len(mst)
            /\ Len(mst) = vertices - ComponentCount(Range(edges), V)
            /\ ComponentCount(Range(edges), V) = 1 => Len(mst) = vertices - 1

\* C6 witness: a call on a disconnected graph without self-loops that rejected
\* an edge because it would have closed a cycle.
C6_Witness ==
    /\ pc = "kruskalReturned"
    /\ \A i \in 1..Len(edges) : edges[i][1] # edges[i][2]
    /\ Len(mst) >= 1
    /\ Len(mst) < Len(edges)
    /\ Len(mst) < vertices - 1

ScenarioKruskal == kruskal(<<<<0, 1, 1>>, <<1, 2, 2>>, <<0, 2, 4>>, <<2, 3, 1>>>>, 4)

\* C7: the total weight of the edges kruskal returns is at most the total weight
\* of every spanning forest of the input graph; the documented scenario selects
\* (0,1,1), (2,3,1), (1,2,2), of total weight 4.
C7_KruskalMinimumWeight ==
    /\ pc = "kruskalReturned" =>
          \A I \in SpanningForests(edges, vertices) : TotalWeight(mst) <= WeightAt(edges, I)
    /\ ScenarioKruskal.mst = <<<<0, 1, 1>>, <<2, 3, 1>>, <<1, 2, 2>>>>
    /\ TotalWeight(ScenarioKruskal.mst) = 4

\* C7 witness: a call on a graph that has a spanning forest strictly heavier than
\* the returned one.
C7_Witness ==
    /\ pc = "kruskalReturned"
    /\ Len(mst) >= 1
    /\ \E I \in SpanningForests(edges, vertices) : TotalWeight(mst) < WeightAt(edges, I)

NoDuplicates(s) == \A i \in 1..Len(s), j \in 1..Len(s) : i # j => s[i] # s[j]

\* C8: the sequence bfs returns and the sequence dfs returns each contain every
\* vertex reachable from start exactly once and no other vertex.
C8_TraversalVisitsReachableOnce ==
    pc \in {"bfsReturned", "dfsReturned"} =>
        /\ NoDuplicates(result)
        /\ Range(result) = Reachable(ArcsOfList(adjList), DOMAIN adjList, start)

\* C8 witness: a returned bfs whose start vertex has two entries for the same
\* other vertex, so that the frontier held that vertex twice.
C8_Witness ==
    /\ pc = "bfsReturned"
    /\ Len(result) >= 2
    /\ \E v \in DOMAIN adjList :
          /\ v # start
          /\ Cardinality({i \in 1..Len(adjList[start]) : adjList[start][i].vertex = v}) >= 2

\* The spanning trees of the list l, as sets of arcs <<u, v, w>> with u < v.
SpanningTreesOfList(l) ==
    LET V == DOMAIN l
        E == {a \in ArcsOfList(l) : a[1] < a[2]}
    IN  {T \in SUBSET E :
            /\ Cardinality(T) = Cardinality(V) - 1
            /\ ComponentCount(T, V) = 1}

SetWeight(T) ==
    LET RECURSIVE W(_)
        W(S) == IF S = {} THEN 0
                ELSE LET a == CHOOSE x \in S : TRUE IN a[3] + W(S \ {a})
    IN  W(T)

\* C10 as claimed: for a connected graph prim returns the edges of a minimum
\* spanning tree: exactly vertexCount - 1 edges, no cycle, all vertices connected,
\* minimum total weight among spanning trees.
C10_PrimReturnsMinimumSpanningTree ==
    (/\ pc = "primReturned"
     /\ ComponentCount(ArcsOfList(adjList), DOMAIN adjList) = 1)
    => LET n == Cardinality(DOMAIN adjList)
       IN  /\ Len(mst) = n - 1
           /\ ComponentCount(Range(mst), DOMAIN adjList) = n - Len(mst)
           /\ ComponentCount(Range(mst), DOMAIN adjList) = 1
           /\ \A T \in SpanningTreesOfList(adjList) : TotalWeight(mst) <= SetWeight(T)

\* The vertices whose adjacency sequence has odd length.
OddVertices(l) == {v \in DOMAIN l : Len(l[v]) % 2 = 1}

ScenarioTriangle ==
    addEdgeToList(addEdgeToList(addEdgeToList(
        createAdjacencyList(3), 0, 1, 1), 1, 2, 1), 0, 2, 1)

Acyclic(l) ==
    \A v \in DOMAIN l :
        v \notin ReachSet(ArcsOfList(l), {l[v][i].vertex : i \in 1..Len(l[v])})

Position(s, x) == CHOOSE i \in 1..Len(s) : s[i] = x

\* C12: on a directed acyclic adjacency list topologicalSort returns every
\* vertex exactly once, and u before v for every edge u -> v.
C12_TopologicalOrder ==
    (pc = "topologicalSortReturned" /\ Acyclic(adjList)) =>
        /\ NoDuplicates(result)
        /\ Range(result) = DOMAIN adjList
        /\ \A a \in ArcsOfList(adjList) : Position(result, a[1]) < Position(result, a[2])

\* A chain of two edges that runs against the vertex numbering was sorted.
C12_Witness ==
    /\ pc = "topologicalSortReturned"
    /\ Acyclic(adjList)
    /\ \E a \in ArcsOfList(adjList), b \in ArcsOfList(adjList) :
          a[2] = b[1] /\ a[1] > a[2] /\ b[1] > b[2]

\* C13: hasHamiltonianPath ends in its not-implemented error on every graph
\* and never returns a boolean.
C13_HamiltonianNotImplemented ==
    pc = "hasHamiltonianPathEnded" => (threw /\ returnValue = Null)

\* The call was made on a graph with edges in two pieces.
C13_Witness ==
    /\ pc = "hasHamiltonianPathEnded"
    /\ threw
    /\ EntryCount(adjList) > 0
    /\ ComponentCount(ArcsOfList(adjList), DOMAIN adjList) > 1

\* The caller is inside or just after bfs, dfs, dijkstra, prim, hasEulerianPath,
\* hasEulerianCircuit or topologicalSort.
InListAlgorithm(p) ==
    p \in {"bfs", "bfsReturned", "dfsReturned", "dijkstra", "dijkstraReturned", "prim",
           "primReturned", "hasEulerianPathReturned", "hasEulerianCircuitReturned",
           "topologicalSortReturned"}

Extends(s, t, tail) ==
    /\ Len(s) = Len(t) + Len(tail)
    /\ \A i \in 1..Len(t) : s[i] = t[i]
    /\ \A i \in 1..Len(tail) : s[Len(t) + i] = tail[i]

\* C17: addEdgeToList(list, u, v, weight) with in-range u, v puts (v, weight) at
\* the end of u's sequence and (u, weight) at the end of v's sequence; earlier
\* entries keep their places and no other vertex's sequence changes; an omitted
\* weight is 1; an edge already present gets one more pair of entries; u = v
\* is accepted and adds both entries to the one sequence.
C17_AddEdgeToListAppends ==
    pc = "list" =>
        \A u \in DOMAIN adjList, v \in DOMAIN adjList, w \in WeightArgs :
            LET weight == IF w = <<>> THEN 1 ELSE w[1]
                toV == [vertex |-> v, weight |-> weight]
                toU == [vertex |-> u, weight |-> weight]
                after == addEdgeToList(adjList, u, v, defaultWeight(w))
            IN  /\ DOMAIN after = DOMAIN adjList
                /\ \A x \in DOMAIN adjList \ {u, v} : after[x] = adjList[x]
                /\ u # v => /\ Extends(after[u], adjList[u], <<toV>>)
                            /\ Extends(after[v], adjList[v], <<toU>>)
                            /\ CountEntries(after[u], v, weight)
                                  = CountEntries(adjList[u], v, weight) + 1
                /\ u = v => Extends(after[u], adjList[u], <<toV, toU>>)

\* The same edge was added twice without a weight: both pairs of entries are there.
C17_Witness ==
    /\ pc = "list"
    /\ \E u \in DOMAIN adjList, v \in DOMAIN adjList :
          /\ u # v
          /\ CountEntries(adjList[u], v, 1) = 2
          /\ CountEntries(adjList[v], u, 1) = 2

\* C16: kruskal(edges, vertexCount) leaves the caller's edge list as it was:
\* after the call the list holds the same edges in the same order as before.
C16_KruskalLeavesEdgeListUnchanged ==
    [][pc' = "kruskalReturned" => edges' = edges]_vars

\* The number of records [u, v, w] in a sequence of edges.
RecordCount(es, u, v, w) == Cardinality({i \in 1..Len(es) : es[i] = <<u, v, w>>})

\* The vertices connected to start.
StartComponent == Reachable(ArcsOfList(adjList), DOMAIN adjList, start)

\* The number of edges added between different vertices of C: every such edge
\* left two entries.
NonLoopEdgeCount(l, C) ==
    Cardinality(UNION {{<<u, i>> : i \in {j \in 1..Len(l[u]) : l[u][j].vertex # u}}
                       : u \in C}) \div 2

\* During and after prim: every record [u, v, w] leaves a visited u, joins two
\* different vertices of start's component, and every edge added between
\* different vertices a, b has exactly one record as soon as a or b is visited
\* (when prim returns: every such edge of start's component), none before.
PrimRecordsEachEdgeOnce ==
    pc \in {"prim", "primReturned"} =>
        /\ \A i \in 1..Len(mst) :
              /\ mst[i][1] \in visited
              /\ mst[i][1] # mst[i][2]
              /\ {mst[i][1], mst[i][2]} \subseteq StartComponent
        /\ \A a \in DOMAIN adjList, b \in DOMAIN adjList, w \in 0..(MaxWeight + 1) :
              a # b =>
                  RecordCount(mst, a, b, w) + RecordCount(mst, b, a, w)
                      = IF a \in visited \/ b \in visited
                        THEN CountEntries(adjList[a], b, w) ELSE 0
        /\ pc = "primReturned" =>
              /\ visited = StartComponent
              /\ Len(mst) = NonLoopEdgeCount(adjList, StartComponent)

\* C19 as stated: prim records one edge per entry of the newly visited u whose
\* neighbour is unvisited, so the result has exactly one record for every
\* non-self-loop edge of start's component and none for self-loops or other
\* components; and it has more than vertexCount - 1 edges whenever that
\* component contains a cycle (at least as many edges between different
\* vertices as it has vertices).
C19_PrimRecordsAsStated ==
    /\ PrimRecordsEachEdgeOnce
    /\ (/\ pc = "primReturned"
        /\ NonLoopEdgeCount(adjList, StartComponent) >= Cardinality(StartComponent))
          => Len(mst) > Cardinality(DOMAIN adjList) - 1

\* C19, amended: the same records; the result has more than k - 1 edges, k the
\* number of vertices of start's component, whenever that component contains a
\* cycle (at least k edges between different vertices).
C19_PrimRecords ==
    /\ PrimRecordsEachEdgeOnce
    /\ (/\ pc = "primReturned"
        /\ NonLoopEdgeCount(adjList, StartComponent) >= Cardinality(StartComponent))
          => Len(mst) > Cardinality(StartComponent) - 1

\* prim returned from a component that holds a cycle while the graph has a
\* vertex outside that component.
C19_Witness ==
    /\ pc = "primReturned"
    /\ NonLoopEdgeCount(adjList, StartComponent) >= Cardinality(StartComponent)
    /\ StartComponent # DOMAIN adjList
    /\ Len(mst) = Cardinality(DOMAIN adjList) - 1

\* The least number of edges on a path from a vertex of S to v, counted from k.
RECURSIVE HopsFrom(_, _, _, _)
HopsFrom(A, S, v, k) ==
    IF v \in S THEN k
    ELSE LET N == S \cup {a[2] : a \in {b \in A : b[1] \in S}}
         IN  IF N = S THEN Infinity ELSE HopsFrom(A, N, v, k + 1)

hops(s, v) == HopsFrom(ArcsOfList(adjList), {s}, v, 0)

NegativeEdgeReachable ==
    \E a \in ArcsOfList(adjList) :
        a[3] < 0 /\ a[1] \in Reachable(ArcsOfList(adjList), DOMAIN adjList, start)

DijkstraNegativeEdgeNeverReturns ==
    /\ pc = "dijkstra" /\ NegativeEdgeReachable => ~isEmpty(priorityQueue)
    /\ pc = "dijkstraReturned" => ~NegativeEdgeReachable

\* C14: addEdgeToMatrix, addEdgeToList, bfs, dfs, dijkstra, prim, bellmanFord
\* and kruskal each end in an error, not in a result, when a vertex id they are
\* given (u, v, start, an edge endpoint) is outside [0, vertexCount).
C14_OutOfRangeIdFails ==
    pc \in {"addEdgeToMatrixOutOfRange", "addEdgeToListOutOfRange", "bfsOutOfRange",
            "dfsOutOfRange", "dijkstraOutOfRange", "primOutOfRange",
            "bellmanFordOutOfRange", "kruskalOutOfRange"} => threw

\* The entry points that read the Map or the matrix rows do end in an error.
OutOfRangeIdFailsOnMapAndMatrix ==
    pc \in {"addEdgeToMatrixOutOfRange", "addEdgeToListOutOfRange", "bfsOutOfRange",
            "dfsOutOfRange", "dijkstraOutOfRange", "primOutOfRange"} => threw

\* C25: on a list that holds a directed cycle (every list with an edge added in
\* both directions between two different vertices is one) topologicalSort
\* raises no error and returns every vertex exactly once, in an order that is
\* not a topological order: some edge u -> v has u not before v.
C25_TopologicalSortOnCycle ==
    /\ (\E a \in ArcsOfList(adjList) :
           a[1] # a[2] /\ \E b \in ArcsOfList(adjList) : b[1] = a[2] /\ b[2] = a[1])
          => ~Acyclic(adjList)
    /\ (pc = "topologicalSortReturned" /\ ~Acyclic(adjList)) =>
          /\ ~threw
          /\ NoDuplicates(result)
          /\ Range(result) = DOMAIN adjList
          /\ \E a \in ArcsOfList(adjList) :
                ~(Position(result, a[1]) < Position(result, a[2]))

\* topologicalSort returned from a list that holds an undirected edge between
\* two different vertices and a third vertex.
C25_Witness ==
    /\ pc = "topologicalSortReturned"
    /\ Len(result) = 3
    /\ \E a \in ArcsOfList(adjList) :
          a[1] # a[2] /\ \E b \in ArcsOfList(adjList) : b[1] = a[2] /\ b[2] = a[1]

\* C26: a call of addEdgeToList or addEdgeToMatrix with one endpoint in range
\* and the other outside [0, vertexCount) that fails leaves the representation
\* exactly as it was before the call.
C26_FailedMutatorLeavesRepresentation ==
    /\ pc = "list" =>
          \A u \in DOMAIN adjList, x \in OutOfRangeIds(Cardinality(DOMAIN adjList)) :
              /\ addEdgeToListCall(adjList, u, x, 1).threw
                    => addEdgeToListCall(adjList, u, x, 1).adjList = adjList
              /\ addEdgeToListCall(adjList, x, u, 1).threw
                    => addEdgeToListCall(adjList, x, u, 1).adjList = adjList
    /\ pc = "matrix" =>
          \A u \in DOMAIN matrix, x \in OutOfRangeIds(Cardinality(DOMAIN matrix)) :
              /\ addEdgeToMatrixCall(matrix, u, x, 1).threw
                    => addEdgeToMatrixCall(matrix, u, x, 1).matrix = matrix
              /\ addEdgeToMatrixCall(matrix, x, u, 1).threw
                    => addEdgeToMatrixCall(matrix, x, u, 1).matrix = matrix

\* What does hold of the failed calls: with u out of range nothing is written.
FailedMutatorWithMissingFirstEndpoint ==
    /\ pc = "list" =>
          \A u \in DOMAIN adjList, x \in OutOfRangeIds(Cardinality(DOMAIN adjList)) :
              addEdgeToListCall(adjList, x, u, 1) = [threw |-> TRUE, adjList |-> adjList]
    /\ pc = "matrix" =>
          \A u \in DOMAIN matrix, x \in OutOfRangeIds(Cardinality(DOMAIN matrix)) :
              addEdgeToMatrixCall(matrix, x, u, 1) = [threw |-> TRUE, matrix |-> matrix]

Scenario4OddVertices ==
    addEdgeToList(addEdgeToList(createAdjacencyList(4), 0, 1, 1), 2, 3, 1)

TwoCallsOnFreshMatrix ==
    \A n \in 1..MaxVertices, w1 \in WeightArgs, w2 \in WeightArgs :
        \A u \in 0..(n - 1), v \in 0..(n - 1) :
            LET fresh == createAdjacencyMatrix(n)
                twice == addEdgeToMatrix(addEdgeToMatrix(fresh, u, v, defaultWeight(w1)),
                                         u, v, defaultWeight(w2))
            IN  \A a \in 0..(n - 1), b \in 0..(n - 1) :
                    twice[a][b] = IF <<a, b>> \in {<<u, v>>, <<v, u>>}
                                  THEN defaultWeight(w2) ELSE 0

\* C29: addEdgeToMatrix overwrites. Whatever the earlier calls (a call with w1
\* on the same u, v among them) left in the matrix, after a call with w2 both
\* cells hold w2 and every other cell is as before, and after a call with
\* weight 0 the two cells are as createAdjacencyMatrix made them.
C29_MatrixOverwrites ==
    /\ TwoCallsOnFreshMatrix
    /\ pc = "matrix" =>
          \A fresh \in {createAdjacencyMatrix(Cardinality(DOMAIN matrix))} :
              \A u \in DOMAIN matrix, v \in DOMAIN matrix,
                 w2 \in {defaultWeight(w) : w \in WeightArgs} :
                  \A twice \in {addEdgeToMatrix(matrix, u, v, w2)} :
                      /\ twice[u][v] = w2
                      /\ twice[v][u] = w2
                      /\ \A a \in DOMAIN matrix \ {u, v} : twice[a] = matrix[a]
                      /\ \A b \in DOMAIN matrix \ {v} : twice[u][b] = matrix[u][b]
                      /\ \A b \in DOMAIN matrix \ {u} : twice[v][b] = matrix[v][b]
                      /\ w2 = 0 =>
                            twice[u][v] = fresh[u][v] /\ twice[v][u] = fresh[v][u]

\* The matrix holds an edge of weight 1 that a later call can overwrite.
C29_Witness ==
    /\ pc = "matrix"
    /\ \E u \in DOMAIN matrix, v \in DOMAIN matrix :
          u # v /\ matrix[u][v] = 1 /\ matrix[v][u] = 1

\* The number of entries of the priority queue q that hold the vertex v.
EntriesOf(q, v) == Cardinality({i \in 1..Len(q) : q[i].element = v})

\* The entries for v that one loop iteration added: the dequeued one is gone.
NewEntriesOf(v) ==
    EntriesOf(priorityQueue', v)
        - (EntriesOf(priorityQueue, v) - (IF Head(priorityQueue).element = v THEN 1 ELSE 0))

\* C21: with non-negative weights (cycles and zero-weight edges included) an
\* iteration of dijkstra's loop enqueues a vertex only when its distance has
\* strictly decreased, and every call of dijkstra eventually returns.
C21_DijkstraTerminates ==
    /\ [][(pc = "dijkstra" /\ ~isEmpty(priorityQueue)) =>
            \A v \in DOMAIN adjList :
                NewEntriesOf(v) > 0 => distances'[v] < distances[v]]_vars
    /\ (pc = "dijkstra") ~> (pc = "dijkstraReturned")

\* dijkstra returned on a graph with a zero-weight cycle through start.
C21_Witness ==
    /\ pc = "dijkstraReturned"
    /\ \E v \in DOMAIN adjList :
          v # start /\ CountEntries(adjList[start], v, 0) > 0 /\ distances[v] = 0

\* Every simple path that leaves s, with the weight of each choice of arcs:
\* the paths of P, each extended by up to k arcs to new vertices.
RECURSIVE ExtendWeightedPaths(_, _, _)
ExtendWeightedPaths(A, P, k) ==
    IF k = 0 THEN P
    ELSE ExtendWeightedPaths(A,
            P \cup UNION {{[path |-> Append(p.path, a[2]), weight |-> p.weight + a[3]] :
                              a \in {b \in A : b[1] = p.path[Len(p.path)]
                                                /\ b[2] \notin Range(p.path)}}
                          : p \in P},
            k - 1)

\* For every v, the weights of the simple paths from s to v.
PathWeightsFrom(A, V, s) ==
    LET P == ExtendWeightedPaths(A, {[path |-> <<s>>, weight |-> 0]}, Cardinality(V) - 1)
    IN  [v \in V |-> {p.weight : p \in {q \in P : q.path[Len(q.path)] = v}}]

DijkstraLoopInvariant ==
    pc \in {"dijkstra", "dijkstraReturned"} =>
        LET W == PathWeightsFrom(ArcsOfList(adjList), DOMAIN adjList, start)
            shortest == MinPathWeights(ArcsOfList(adjList), DOMAIN adjList, start)
        IN  /\ \A v \in DOMAIN adjList :
                  \/ distances[v] = Infinity
                  \/ distances[v] \in W[v] /\ distances[v] >= shortest[v]
            /\ \A i \in 1..Len(priorityQueue) :
                  priorityQueue[i].priority >= distances[priorityQueue[i].element]

\* C27: at every point of dijkstra on a non-negatively weighted graph, each
\* distances[v] is Infinity or the weight of an actual path from start to v
\* (so never below the shortest-path weight), every queue entry (v, p) has
\* p >= distances[v], and no step increases a distances[v].
C27_DijkstraLoopInvariants ==
    /\ []DijkstraLoopInvariant
    /\ [][pc = "dijkstra" => \A v \in DOMAIN adjList : distances'[v] <= distances[v]]_vars

\* In the loop, the queue holds a stale entry: its vertex has since got a
\* smaller distance, which is above the shortest-path weight.
C27_Witness ==
    /\ pc = "dijkstra"
    /\ \E i \in 1..Len(priorityQueue) :
          priorityQueue[i].priority > distances[priorityQueue[i].element]

\* The number of positions of the sequence s that hold x.
Occurrences(s, x) == Cardinality({i \in 1..Len(s) : s[i] = x})

\* The number of calls op made so far with the entry x (passed or returned).
CallsWith(op, x) ==
    Cardinality({i \in 1..Len(calls) : calls[i].op = op /\ calls[i].entry = x})

QueueEntries == [element : QueueElements, priority : Weights]

\* C22: after any sequence of enqueue and dequeue calls, the queue holds each
\* entry as often as it was enqueued minus as often as it was dequeued, and a
\* dequeue on a non-empty queue has returned an entry whose priority is at most
\* the priority of every entry still held.
C22_PriorityQueueOrder ==
    pc = "priorityQueue" =>
        /\ \A x \in QueueEntries :
              Occurrences(priorityQueue, x) = CallsWith("enqueue", x) - CallsWith("dequeue", x)
        /\ (calls # <<>> /\ calls[Len(calls)].op = "dequeue") =>
              \A i \in 1..Len(priorityQueue) :
                  calls[Len(calls)].entry.priority <= priorityQueue[i].priority
        /\ ~isEmpty(priorityQueue) =>
              \A i \in 1..Len(priorityQueue) :
                  dequeue(priorityQueue).entry.priority <= priorityQueue[i].priority

\* A dequeue has returned an entry that was enqueued after an entry of higher
\* priority, which is still held.
C22_Witness ==
    /\ pc = "priorityQueue"
    /\ Len(calls) = 3
    /\ calls[1].op = "enqueue" /\ calls[2].op = "enqueue" /\ calls[3].op = "dequeue"
    /\ calls[2].entry.priority < calls[1].entry.priority
    /\ priorityQueue = <<calls[1].entry>>

\* The root of x: the end of its chain of parent pointers (k bounds the walk).
RECURSIVE RootWithin(_, _, _)
RootWithin(p, x, k) == IF p[x] = x \/ k = 0 THEN x ELSE RootWithin(p, p[x], k - 1)

RootOf(p, x) == RootWithin(p, x, Cardinality(DOMAIN p))

\* The vertices connected to x by the pairs of U (x itself included).
ConnectedTo(U, x) ==
    ReachSet({t \in {<<a, b, 0>> : a \in UNION U, b \in UNION U} : {t[1], t[2]} \in U}, {x})

\* The root of every vertex under the parent pointers p.
Roots(p) == [x \in DOMAIN p |-> RootOf(p, x)]

\* The root functions rp and rq give the same partition: the same pairs of
\* vertices share a root.
SameSets(rp, rq) ==
    \A x \in DOMAIN rp, y \in DOMAIN rp : (rp[x] = rp[y]) <=> (rq[x] = rq[y])

\* The number of sets of the partition.
SetCount(roots) == Cardinality({roots[x] : x \in DOMAIN roots})

\* C23: after any sequence of union and find calls on in-range vertices,
\* find(v) returns a root r with parent[r] = r, find(u) = find(v) exactly when
\* u and v are connected by the unions made so far, and find changes parent
\* pointers without changing the partition.
C23_DisjointSetFind ==
    pc = "disjointSet" =>
        \A before \in {Roots(disjointSet.parent)},
           found \in {[v \in DOMAIN disjointSet.parent |-> find(disjointSet.parent, v)]} :
            \A u \in DOMAIN disjointSet.parent :
                /\ found[u].parent[found[u].root] = found[u].root
                /\ found[u].root = before[u]
                /\ SameSets(Roots(found[u].parent), before)
                /\ \A connected \in {ConnectedTo(unioned, u)} :
                      \A v \in DOMAIN disjointSet.parent :
                          (found[v].root = found[u].root) <=> v \in connected

\* Four vertices joined by three unions, with a chain of two parent pointers
\* that find has yet to compress.
C23_Witness ==
    /\ pc = "disjointSet"
    /\ Cardinality(unioned) = 3
    /\ \E x \in DOMAIN disjointSet.parent :
          /\ disjointSet.parent[x] # x
          /\ disjointSet.parent[disjointSet.parent[x]] # disjointSet.parent[x]

\* C24: union(u, v) with u and v already in the same set leaves the partition
\* and the rank array unchanged, so repeating a union(u, v) gives the number of
\* sets that the first call gave.
C24_UnionIdempotent ==
    pc = "disjointSet" =>
        \A before \in {Roots(disjointSet.parent)} :
            \A u \in DOMAIN disjointSet.parent, v \in DOMAIN disjointSet.parent :
                \A once \in {union(disjointSet, u, v)} :
                    \A after \in {Roots(once.parent)}, twice \in {union(once, u, v)} :
                        /\ before[u] = before[v] =>
                              SameSets(after, before) /\ once.rank = disjointSet.rank
                        /\ SameSets(Roots(twice.parent), after)
                        /\ twice.rank = once.rank
                        /\ SetCount(Roots(twice.parent)) = SetCount(after)

\* A union of two vertices of the same set was called a second time, on a set
\* whose chain the call compresses.
C24_Witness ==
    /\ pc = "disjointSet"
    /\ \E u \in DOMAIN disjointSet.parent, v \in DOMAIN disjointSet.parent :
          /\ u # v
          /\ {u, v} \in unioned
          /\ union(disjointSet, u, v).parent # disjointSet.parent

\* C30: after any sequence of union and find calls every non-root x has
\* rank[x] < rank[parent[x]]; so the parent pointers hold no cycle and find
\* ends at a root.
C30_RankIncreasesTowardsRoot ==
    pc = "disjointSet" =>
        /\ \A x \in DOMAIN disjointSet.parent :
              disjointSet.parent[x] # x =>
                  disjointSet.rank[x] < disjointSet.rank[disjointSet.parent[x]]
        /\ \A x \in DOMAIN disjointSet.parent :
              LET r == RootOf(disjointSet.parent, x)
              IN  /\ disjointSet.parent[r] = r
                  /\ find(disjointSet.parent, x).root = r

\* A root of rank 1 with a child, and another vertex joined to it later.
C30_Witness ==
    /\ pc = "disjointSet"
    /\ \E r \in DOMAIN disjointSet.parent :
          /\ disjointSet.rank[r] = 1
          /\ Cardinality({x \in DOMAIN disjointSet.parent : disjointSet.parent[x] = r}) = 3

====
